---- MODULE Spec2Model ----
(***************************************************************************)
(* memu-v3-mcp: an MCP server (src/src/index.ts) that exposes five tools   *)
(* over stdio and forwards each invocation as one HTTP request to the MemU *)
(* V3 REST API.                                                            *)
(*                                                                         *)
(* Modelling conventions                                                   *)
(*  - a JSON object is a function from field names to values; an absent    *)
(*    field is a name outside its DOMAIN;                                  *)
(*  - a text built by a template string is the tuple of its pieces, a text *)
(*    built by parts.join("\n") is the sequence of its lines;              *)
(*  - the Japanese message literals of the source are written in English.  *)
(*  - every async handler has one suspension point that other invocations  *)
(*    can interleave with, the await of fetch (index.ts:34): a handler is  *)
(*    one action up to that await and one action after it.                 *)
(***************************************************************************)
EXTENDS Integers, Sequences, FiniteSets, Bags, TLC

VARIABLES env, proc, exitCode, inflight, out

vars == <<env, proc, exitCode, inflight, out>>

----------------------------------------------------------------------------
(* Bounds of the exploration *)

\* number of tool invocations that can be in flight at the same time
NInv == 2
\* longest conversation array a caller passes to memu_memorize
MaxMsgs == 3
\* longest categories / items / resources array in a response
MaxList == 1

----------------------------------------------------------------------------
(* Program constants *)

MEMU_BASE_URL == "https://api.memu.so"
AGENT_ID == "claude-code"
\* z.array(MessageSchema).min(3)
MinConversation == 3

\* JavaScript's undefined, for an optional string that is not there
Undefined == "<undefined>"
\* the empty JSON object / empty argument object
EmptyObj == <<>>

----------------------------------------------------------------------------
(* Environment of the process: process.env *)

EnvValues == {Undefined, "", "set"}

Envs == [MEMU_API_KEY : EnvValues, MEMU_USER_ID : EnvValues]

\* JavaScript !s for a string-or-undefined s
Falsy(s) == s = Undefined \/ s = ""

----------------------------------------------------------------------------
(* Errors: every error of the program is a plain Error with a message *)

Error(msg) == [message |-> msg]

ApiKeyMissing == Error(<<"MEMU_API_KEY is not set">>)
UserIdMissing == Error(<<"MEMU_USER_ID is not set">>)

Throw(e) == [ok |-> FALSE, error |-> e]
Return(v) == [ok |-> TRUE, value |-> v]

\* variant of getConfig that does not test the user id
getConfig_noUserCheck(e) ==
    IF Falsy(e.MEMU_API_KEY) THEN Throw(ApiKeyMissing)
    ELSE Return([apiKey |-> e.MEMU_API_KEY, userId |-> e.MEMU_USER_ID])

\* getConfig(): reads both variables, the API key is tested first
getConfig(e) ==
    IF Falsy(e.MEMU_API_KEY) THEN Throw(ApiKeyMissing)
    ELSE IF Falsy(e.MEMU_USER_ID) THEN Throw(UserIdMissing)
    ELSE Return([apiKey |-> e.MEMU_API_KEY, userId |-> e.MEMU_USER_ID])

----------------------------------------------------------------------------
(* Texts on the wire.  JSON.stringify(v) is the text that encodes v; a     *)
(* text that is not JSON is a raw string.  res.json() parses the text and  *)
(* rejects with a SyntaxError when it is not JSON.                         *)

JSONstringify(v) == [json |-> v]
RawText(s) == [raw |-> s]

JsonSyntaxError == Error(<<"SyntaxError: Unexpected token">>)

JSONparse(text) ==
    IF "json" \in DOMAIN text THEN Return(text.json) ELSE Throw(JsonSyntaxError)

----------------------------------------------------------------------------
(* memuFetch, first half: from the call to the await of fetch *)

\* options.method ?? "POST"
methodOf(options) ==
    IF "method" \in DOMAIN options THEN options.method ELSE "POST"

\* the Authorization header, plus Content-Type when a body is serialized
headersOf(apiKey, withBody) ==
    IF withBody
    THEN ("Authorization" :> <<"Bearer ", apiKey>>)
            @@ ("Content-Type" :> "application/json")
    ELSE ("Authorization" :> <<"Bearer ", apiKey>>)

\* the request memuFetch hands to fetch(); a request without a body has no
\* "body" field
buildRequest(apiKey, path, options) ==
    LET method == methodOf(options)
        withBody == method # "GET" /\ "body" \in DOMAIN options
        base == [url |-> <<MEMU_BASE_URL>> \o path,
                 method |-> method,
                 headers |-> headersOf(apiKey, withBody)]
    IN  IF withBody
        THEN base @@ ("body" :> JSONstringify(options.body))
        ELSE base

\* Throw(configuration error) or Return(the request that is sent)
memuFetchRequest(e, path, options) ==
    LET cfg == getConfig(e)
    IN  IF ~cfg.ok THEN cfg
        ELSE Return(buildRequest(cfg.value.apiKey, path, options))

\* variant of fetch that sends the request a second time
fetch_twice(req) == <<req, req>>

\* fetch(url, fetchOptions) puts one request on the wire
fetch(req) == <<req>>

----------------------------------------------------------------------------
(* memuFetch, second half: from the settled fetch to the return or throw *)

\* what the network answers: a response, or no response at all
Rejected == [rejected |-> TRUE]
Response(status, text) == [rejected |-> FALSE, status |-> status, text |-> text]

FetchFailed == Error(<<"TypeError: fetch failed">>)

\* Response.ok
resOk(status) == status >= 200 /\ status <= 299

AuthError == Error(<<"Authentication error: the API key is invalid">>)
RateLimitError == Error(<<"Rate limit reached. Wait a while and retry">>)
ValidationError(text) == Error(<<"Validation error: ", text>>)
ApiError(status, text) ==
    Error(<<"MemU API error (", ToString(status), "): ", text>>)

\* variant of statusError without the case 429
statusError_no429(status, text) ==
    CASE status = 401 -> AuthError
      [] status = 422 -> ValidationError(text)
      [] OTHER -> ApiError(status, text)

\* the switch on res.status of a response that is not ok
statusError(status, text) ==
    CASE status = 401 -> AuthError
      [] status = 422 -> ValidationError(text)
      [] status = 429 -> RateLimitError
      [] OTHER -> ApiError(status, text)

memuFetchResult(net) ==
    IF net.rejected THEN Throw(FetchFailed)
    ELSE IF ~resOk(net.status) THEN Throw(statusError(net.status, net.text))
    ELSE JSONparse(net.text)

----------------------------------------------------------------------------
(* Input schemas (zod) *)

\* MessageSchema: role is "user" or "assistant", content is a string
MessageSchema(m) == m.role \in {"user", "assistant"}

ArrayOf(schema(_), a) == \A k \in 1..Len(a) : schema(a[k])

\* variant of memorizeSchema that accepts one message less
memorizeSchema_min2(args) ==
    /\ ArrayOf(MessageSchema, args.conversation)
    /\ Len(args.conversation) >= MinConversation - 1

\* conversation: z.array(MessageSchema).min(3); session_date is optional
memorizeSchema(args) ==
    /\ ArrayOf(MessageSchema, args.conversation)
    /\ Len(args.conversation) >= MinConversation

\* task_id: z.string(), required
statusSchema(args) == args.task_id # Undefined

\* query: a string, or an array of MessageSchema of any length
retrieveSchema(args) ==
    \/ ~args.query.isArray
    \/ ArrayOf(MessageSchema, args.query.messages)

categoriesSchema(args) == TRUE

\* agent_id: z.string().optional()
deleteSchema(args) == TRUE

schemaOk(tool, args) ==
    CASE tool = "memu_memorize" -> memorizeSchema(args)
      [] tool = "memu_memorize_status" -> statusSchema(args)
      [] tool = "memu_retrieve" -> retrieveSchema(args)
      [] tool = "memu_categories" -> categoriesSchema(args)
      [] tool = "memu_delete" -> deleteSchema(args)

----------------------------------------------------------------------------
(* Handlers, first half: from the call of the handler to the await of     *)
(* memuFetch.  Each yields Throw(error) or Return(the request it sends).  *)

\* new Date().toISOString()
Now == "<now>"

\* encodeURIComponent on the task ids of the model
encodeURIComponent(s) == IF s = "a/b" THEN "a%2Fb" ELSE s

memorizeRequest(e, args) ==
    LET cfg == getConfig(e)
    IN  IF ~cfg.ok THEN cfg
        ELSE memuFetchRequest(e, <<"/api/v3/memory/memorize">>,
               [body |-> [conversation |-> args.conversation,
                          user_id |-> cfg.value.userId,
                          agent_id |-> AGENT_ID,
                          agent_name |-> "Claude Code",
                          session_date |->
                              IF args.session_date = Undefined
                              THEN Now ELSE args.session_date]])

statusRequest(e, args) ==
    memuFetchRequest(e,
        <<"/api/v3/memory/memorize/status/", encodeURIComponent(args.task_id)>>,
        [method |-> "GET"])

retrieveRequest(e, args) ==
    LET cfg == getConfig(e)
    IN  IF ~cfg.ok THEN cfg
        ELSE memuFetchRequest(e, <<"/api/v3/memory/retrieve">>,
               [body |-> [user_id |-> cfg.value.userId,
                          agent_id |-> AGENT_ID,
                          query |-> args.query]])

categoriesRequest(e, args) ==
    LET cfg == getConfig(e)
    IN  IF ~cfg.ok THEN cfg
        ELSE memuFetchRequest(e, <<"/api/v3/memory/categories">>,
               [body |-> [user_id |-> cfg.value.userId,
                          agent_id |-> AGENT_ID]])

\* variant of deleteBody that falls back to the fixed agent id
deleteBody_defaultAgent(userId, agent_id) ==
    [user_id |-> userId,
     agent_id |-> IF Falsy(agent_id) THEN AGENT_ID ELSE agent_id]

\* body = { user_id }; if (agent_id) body.agent_id = agent_id
deleteBody(userId, agent_id) ==
    IF Falsy(agent_id)
    THEN [user_id |-> userId]
    ELSE [user_id |-> userId, agent_id |-> agent_id]

deleteRequest(e, args) ==
    LET cfg == getConfig(e)
    IN  IF ~cfg.ok THEN cfg
        ELSE memuFetchRequest(e, <<"/api/v3/memory/delete">>,
               [body |-> deleteBody(cfg.value.userId, args.agent_id)])

handlerRequest(tool, e, args) ==
    CASE tool = "memu_memorize" -> memorizeRequest(e, args)
      [] tool = "memu_memorize_status" -> statusRequest(e, args)
      [] tool = "memu_retrieve" -> retrieveRequest(e, args)
      [] tool = "memu_categories" -> categoriesRequest(e, args)
      [] tool = "memu_delete" -> deleteRequest(e, args)

----------------------------------------------------------------------------
(* Handlers, second half: formatting of the parsed response.  A text is   *)
(* the sequence of the lines joined by "\n", a line the tuple of the      *)
(* pieces of its template.                                                *)

\* obj.k is a non-empty string (JavaScript truthiness of a string field)
HasStr(obj, k) == k \in DOMAIN obj /\ obj[k] # ""

\* obj.k?.length is truthy
HasLen(obj, k) == k \in DOMAIN obj /\ Len(obj[k]) > 0

\* obj.k ?? dflt
OrElse(obj, k, dflt) == IF k \in DOMAIN obj THEN obj[k] ELSE dflt

\* a JSON string value, as opposed to a JSON object
JsonString(s) == [string |-> s]
IsJsonString(v) == DOMAIN v = {"string"}

ToolText(text) == [content |-> <<[type |-> "text", text |-> text]>>]

memorizeText(result) ==
    IF HasStr(result, "task_id")
    THEN << <<"Memorization started (task_id: ", result.task_id,
              ", status: ", OrElse(result, "status", "PENDING"), ")">> >>
    ELSE << <<"Result: ", JSONstringify(result)>> >>

statusText(result) ==
    << <<"Status: **", OrElse(result, "status", "UNKNOWN"), "**">> >>
    \o (IF HasStr(result, "created_at")
        THEN << <<"Started: ", result.created_at>> >> ELSE <<>>)
    \o (IF HasStr(result, "completed_at")
        THEN << <<"Completed: ", result.completed_at>> >> ELSE <<>>)

RewrittenPrefix == "> Rewritten query: "
CategoriesHeader == <<"## Categories">>
ItemsHeader == <<"\n## Memory items">>
ResourcesHeader == <<"\n## Resources">>
NotFoundText == << <<"No related memories were found.">> >>

categoryLines(cat) ==
    << <<"### ", cat.name>> >>
    \o (IF HasStr(cat, "description") THEN << <<cat.description>> >> ELSE <<>>)
    \o (IF HasStr(cat, "summary") THEN << <<cat.summary>> >> ELSE <<>>)

itemLine(item) ==
    IF HasStr(item, "memory_type")
    THEN <<"- ", "[", item.memory_type, "]", " ", item.content>>
    ELSE <<"- ", "", " ", item.content>>

resourceLine(res) ==
    <<"- [", OrElse(res, "caption", OrElse(res, "modality", "resource")),
      "](", res.resource_url, "): ", OrElse(res, "content", "")>>

RECURSIVE FlatMap(_, _)
FlatMap(f(_), xs) ==
    IF xs = <<>> THEN <<>> ELSE f(Head(xs)) \o FlatMap(f, Tail(xs))

Map(f(_), xs) == [k \in 1..Len(xs) |-> f(xs[k])]

\* variant of rewrittenPart that never shows the rewritten query
rewrittenPart_dropped(result) == <<>>

rewrittenPart(result) ==
    IF HasStr(result, "rewritten_query")
    THEN << <<RewrittenPrefix, result.rewritten_query>> >> ELSE <<>>

categoriesPart(result) ==
    IF HasLen(result, "categories")
    THEN <<CategoriesHeader>> \o FlatMap(categoryLines, result.categories)
    ELSE <<>>

itemsPart(result) ==
    IF HasLen(result, "items")
    THEN <<ItemsHeader>> \o Map(itemLine, result.items) ELSE <<>>

resourcesPart(result) ==
    IF HasLen(result, "resources")
    THEN <<ResourcesHeader>> \o Map(resourceLine, result.resources) ELSE <<>>

\* variant of retrieveParts with the last two sections exchanged
retrieveParts_resourcesFirst(result) ==
    rewrittenPart(result) \o categoriesPart(result)
        \o resourcesPart(result) \o itemsPart(result)

retrieveParts(result) ==
    rewrittenPart(result) \o categoriesPart(result)
        \o itemsPart(result) \o resourcesPart(result)

retrieveText(result) ==
    LET parts == retrieveParts(result)
    IN  IF Len(parts) > 0 THEN parts ELSE NotFoundText

NoCategoriesText == << <<"No categories yet.">> >>

categoryEntry(cat) ==
    <<"- **", cat.name, "**">>
    \o (IF HasStr(cat, "description") THEN <<": ", cat.description>> ELSE <<"">>)
    \o (IF HasStr(cat, "summary") THEN <<"\n  ", cat.summary>> ELSE <<"">>)

categoriesText(result) ==
    IF ~HasLen(result, "categories") THEN NoCategoriesText
    ELSE << <<"## Memory category list">> >>
            \o Map(categoryEntry, result.categories)

deleteText(result) ==
    IF IsJsonString(result) THEN << <<result.string>> >>
    ELSE << <<"Memories deleted: ", JSONstringify(result)>> >>

formatText(tool, result) ==
    CASE tool = "memu_memorize" -> memorizeText(result)
      [] tool = "memu_memorize_status" -> statusText(result)
      [] tool = "memu_retrieve" -> retrieveText(result)
      [] tool = "memu_categories" -> categoriesText(result)
      [] tool = "memu_delete" -> deleteText(result)

\* variant of handlerResult in which the error of the last failed
\* invocation is kept and rethrown
handlerResult_sharedError(tool, net) ==
    LET fetched == IF out.tool # "none" /\ out.result.isError
                   THEN Throw(FetchFailed) ELSE memuFetchResult(net)
    IN  IF ~fetched.ok THEN fetched
        ELSE Return(ToolText(formatText(tool, fetched.value)))

\* the handler after its await: the error of memuFetch propagates, the
\* parsed body is formatted
handlerResult(tool, net) ==
    LET fetched == memuFetchResult(net)
    IN  IF ~fetched.ok THEN fetched
        ELSE Return(ToolText(formatText(tool, fetched.value)))

----------------------------------------------------------------------------
(* What the host passes to the tools and what the remote service answers  *)

UserMessage == [role |-> "user", content |-> "hello"]
SystemMessage == [role |-> "system", content |-> "hello"]

SeqsUpTo(S, n) == UNION {[1..k -> S] : k \in 0..n}

\* the empty list and the lists of MaxList elements of S
Lists(S) == {<<>>} \cup [1..MaxList -> S]

MemorizeArgs ==
    [conversation : SeqsUpTo({UserMessage}, MaxMsgs),
     session_date : {Undefined, "2024-01-01T00:00:00Z"}]

StatusArgs == [task_id : {Undefined, "abc123", "a/b"}]

Queries ==
    {[isArray |-> FALSE, text |-> "favorite editor", messages |-> <<>>]}
    \cup {[isArray |-> TRUE, text |-> "", messages |-> <<m>>] :
            m \in {UserMessage, SystemMessage}}

RetrieveArgs == [query : Queries]

CategoriesArgs == {EmptyObj}

DeleteArgs == [agent_id : {Undefined, "", "other-agent"}]

\* an optional field k with a value of Vs, or absent
Opt(k, Vs) == {EmptyObj} \cup {k :> v : v \in Vs}

CategoryObjs == {[name |-> "preferences", summary |-> "likes editors"]}
ItemObjs == {[memory_type |-> "fact", content |-> "uses vim"]}
ResourceObjs == {[resource_url |-> "https://r/1", modality |-> "image"]}

MemorizeBodies ==
    {a @@ b : a \in Opt("task_id", {"t1"}), b \in Opt("status", {"PENDING"})}

StatusBodies ==
    {a @@ b @@ c : a \in Opt("status", {"SUCCESS"}),
                   b \in Opt("created_at", {"2024-01-01T00:00:00Z"}),
                   c \in Opt("completed_at", {"2024-01-01T00:05:00Z"})}

RetrieveBodies ==
    {a @@ b @@ c @@ d :
        a \in Opt("rewritten_query", {"", "editor preference"}),
        b \in Opt("categories", Lists(CategoryObjs)),
        c \in {[items |-> s] : s \in Lists(ItemObjs)},
        d \in {[resources |-> s] : s \in Lists(ResourceObjs)}}

CategoriesBodies == Opt("categories", Lists(CategoryObjs))

DeleteBodies == {JsonString("deleted"), [deleted |-> "all"]}

BodiesOf(tool) ==
    CASE tool = "memu_memorize" -> MemorizeBodies
      [] tool = "memu_memorize_status" -> StatusBodies
      [] tool = "memu_retrieve" -> RetrieveBodies
      [] tool = "memu_categories" -> CategoriesBodies
      [] tool = "memu_delete" -> DeleteBodies

OkStatuses == {200}
NotOkStatuses == {304, 401, 422, 429, 500}
ErrorTexts == {RawText(""), JSONstringify([detail |-> "bad request"])}

\* the outcomes of one fetch: no response, an error response, a 2xx
\* response with a JSON body, a 2xx response whose body is not JSON
NetOutcomes(tool) ==
    {Rejected}
    \cup {Response(st, t) : st \in NotOkStatuses, t \in ErrorTexts}
    \cup {Response(st, JSONstringify(b)) : st \in OkStatuses, b \in BodiesOf(tool)}
    \cup {Response(st, RawText("")) : st \in OkStatuses \cup {204}}

----------------------------------------------------------------------------
(* The tool dispatcher of the MCP server (McpServer.tool): it validates   *)
(* the arguments against the registered schema before it calls the        *)
(* handler, and turns a rejection of the handler into a failed result.    *)

SchemaError(tool) == Error(<<"Invalid arguments for tool ", tool>>)

\* the result of an invocation whose handler (or validation) threw
toolError(err) ==
    [isError |-> TRUE, content |-> <<[type |-> "text", text |-> err.message]>>]

\* the result of an invocation whose handler returned
toolResult(value) == [isError |-> FALSE, content |-> value.content]

resultOf(outcome) ==
    IF outcome.ok THEN toolResult(outcome.value) ELSE toolError(outcome.error)

----------------------------------------------------------------------------
(* State                                                                  *)
(*  env       process.env, fixed for the life of the process              *)
(*  proc      "starting" until server.connect settles, then "running" or  *)
(*            "exited"                                                    *)
(*  exitCode  the status of process.exit, -1 while the process lives      *)
(*  inflight  the bag of the invocations that await their fetch           *)
(*  out       the last invocation that ended: its tool and arguments,     *)
(*            whether its handler was entered, the requests it put on the *)
(*            wire, what the network answered and the result sent back    *)

Awaiting(tool, args, requests) ==
    [tool |-> tool, args |-> args, requests |-> requests]

InFlight == BagToSet(inflight)

Ended(tool, args, entered, requests, settled, net, result) ==
    [tool |-> tool, args |-> args, entered |-> entered,
     requests |-> requests, settled |-> settled, net |-> net,
     result |-> result]

NoOut == Ended("none", EmptyObj, FALSE, <<>>, FALSE, Rejected,
               toolError(Error(<<>>)))

Init ==
    /\ env \in Envs
    /\ proc = "starting"
    /\ exitCode = -1
    /\ inflight = EmptyBag
    /\ out = NoOut

\* main(): server.connect(transport) resolves, the server serves requests
main ==
    /\ proc = "starting"
    /\ proc' = "running"
    /\ UNCHANGED <<env, exitCode, inflight, out>>

\* variant of mainCatch that exits with status 0
mainCatch_exit0 ==
    /\ proc = "starting"
    /\ proc' = "exited"
    /\ exitCode' = 0
    /\ UNCHANGED <<env, inflight, out>>

\* main().catch: server.connect rejected, the error is logged and the
\* process exits with status 1
mainCatch ==
    /\ proc = "starting"
    /\ proc' = "exited"
    /\ exitCode' = 1
    /\ UNCHANGED <<env, inflight, out>>

\* a tools/call request for `tool` arrives: validation, then the handler
\* up to its await
CallTool(tool, args) ==
    /\ proc = "running"
    /\ BagCardinality(inflight) < NInv
    /\ IF ~schemaOk(tool, args)
       THEN /\ out' = Ended(tool, args, FALSE, <<>>, FALSE, Rejected,
                            toolError(SchemaError(tool)))
            /\ UNCHANGED inflight
       ELSE LET r == handlerRequest(tool, env, args)
            IN  IF ~r.ok
                THEN /\ out' = Ended(tool, args, TRUE, <<>>, FALSE, Rejected,
                                     resultOf(r))
                     /\ UNCHANGED inflight
                ELSE /\ inflight' = inflight
                            (+) SetToBag({Awaiting(tool, args, fetch(r.value))})
                     /\ UNCHANGED out
    /\ UNCHANGED <<env, proc, exitCode>>

\* the fetch of the invocation inv of `tool` settles: the rest of memuFetch
\* and of the handler runs, the result is sent back
Resume(inv, tool) ==
    /\ proc = "running"
    /\ inv.tool = tool
    /\ \E net \in NetOutcomes(tool) :
          out' = Ended(tool, inv.args, TRUE, inv.requests, TRUE, net,
                       resultOf(handlerResult(tool, net)))
    /\ inflight' = inflight (-) SetToBag({inv})
    /\ UNCHANGED <<env, proc, exitCode>>

memu_memorize ==
    \/ \E args \in MemorizeArgs : CallTool("memu_memorize", args)
    \/ \E inv \in InFlight : Resume(inv, "memu_memorize")

memu_memorize_status ==
    \/ \E args \in StatusArgs : CallTool("memu_memorize_status", args)
    \/ \E inv \in InFlight : Resume(inv, "memu_memorize_status")

memu_retrieve ==
    \/ \E args \in RetrieveArgs : CallTool("memu_retrieve", args)
    \/ \E inv \in InFlight : Resume(inv, "memu_retrieve")

memu_categories ==
    \/ \E args \in CategoriesArgs : CallTool("memu_categories", args)
    \/ \E inv \in InFlight : Resume(inv, "memu_categories")

memu_delete ==
    \/ \E args \in DeleteArgs : CallTool("memu_delete", args)
    \/ \E inv \in InFlight : Resume(inv, "memu_delete")

Next ==
    \/ main
    \/ mainCatch
    \/ memu_memorize
    \/ memu_memorize_status
    \/ memu_retrieve
    \/ memu_categories
    \/ memu_delete

Spec == Init /\ [][Next]_vars

----------------------------------------------------------------------------
(* Vocabulary of the properties *)

ConfigMissing == Falsy(env.MEMU_API_KEY) \/ Falsy(env.MEMU_USER_ID)

SomeEnded == out.tool # "none"

NoneInFlight == inflight = EmptyBag

ConfigFailures == {toolError(ApiKeyMissing), toolError(UserIdMissing)}

\* every request an invocation of `tool` with `args` has put on the wire,
\* in flight or ended
RequestHolds(P(_, _, _)) ==
    /\ \A inv \in InFlight :
          \A k \in 1..Len(inv.requests) : P(inv.tool, inv.args, inv.requests[k])
    /\ SomeEnded =>
          \A k \in 1..Len(out.requests) : P(out.tool, out.args, out.requests[k])

\* the JSON object a request carries, the empty object when it has no body
BodyOf(req) == IF "body" \in DOMAIN req THEN req.body.json ELSE EmptyObj

----------------------------------------------------------------------------
(* C1: a memu_memorize invocation whose conversation has fewer than 3     *)
(* messages is rejected by schema validation: its handler is never        *)
(* entered and it never puts a request on the wire.                       *)

C1_ShortConversationRejected ==
    /\ \A inv \in InFlight :
          inv.tool = "memu_memorize" => Len(inv.args.conversation) >= 3
    /\ (out.tool = "memu_memorize" /\ Len(out.args.conversation) < 3)
          => /\ out.result = toolError(SchemaError("memu_memorize"))
             /\ ~out.entered
             /\ out.requests = <<>>

C1_Witness ==
    /\ out.tool = "memu_memorize"
    /\ Len(out.args.conversation) = 2
    /\ ArrayOf(MessageSchema, out.args.conversation)
    /\ ~ConfigMissing
    /\ out.result.isError

----------------------------------------------------------------------------
(* C2, as stated: with MEMU_API_KEY or MEMU_USER_ID unset or empty, every *)
(* invocation of every tool fails with a configuration error and sends no *)
(* request.                                                               *)

C2_Original ==
    ConfigMissing =>
        /\ NoneInFlight
        /\ SomeEnded => /\ out.result \in ConfigFailures
                        /\ out.requests = <<>>

(* C2, amended: with MEMU_API_KEY or MEMU_USER_ID unset or empty, every   *)
(* invocation of every tool fails and sends no request; the failure is    *)
(* the configuration error whenever the arguments pass the tool's schema  *)
(* (arguments that do not pass it are rejected before the configuration   *)
(* is read).  This includes memu_memorize_status.                         *)

C2_ConfigMissingFails ==
    ConfigMissing =>
        /\ NoneInFlight
        /\ SomeEnded =>
              /\ out.result.isError
              /\ out.requests = <<>>
              /\ ~out.settled
              /\ schemaOk(out.tool, out.args) => out.result \in ConfigFailures

C2_Witness ==
    /\ ~Falsy(env.MEMU_API_KEY)
    /\ Falsy(env.MEMU_USER_ID)
    /\ out.tool = "memu_memorize_status"
    /\ out.args.task_id # Undefined
    /\ out.result = toolError(UserIdMissing)
    /\ out.requests = <<>>

----------------------------------------------------------------------------
(* C3, as stated: a non-2xx response makes memuFetch fail with the error  *)
(* of its status (401 authentication, 422 validation with the raw text,   *)
(* 429 rate limit, any other the generic error with the status and the    *)
(* raw text), the four kinds are pairwise distinct, and a 2xx response    *)
(* never produces an error.                                               *)

GotResponse == SomeEnded /\ out.settled /\ ~out.net.rejected

ErrorOfStatus ==
    LET st == out.net.status
        text == out.net.text
    IN  /\ st = 401 => out.result = toolError(AuthError)
        /\ st = 422 => out.result =
                          toolError(Error(<<"Validation error: ", text>>))
        /\ st = 429 => out.result = toolError(RateLimitError)
        /\ st \notin {401, 422, 429} =>
              out.result = toolError(Error(
                  <<"MemU API error (", ToString(st), "): ", text>>))

KindsDistinct ==
    LET kinds == <<AuthError.message[1],
                   ValidationError(out.net.text).message[1],
                   RateLimitError.message[1],
                   ApiError(out.net.status, out.net.text).message[1]>>
    IN  \A a, b \in 1..4 : a # b => kinds[a] # kinds[b]

Is2xx(st) == st \in 200..299

C3_Original ==
    GotResponse =>
        /\ ~Is2xx(out.net.status) => (ErrorOfStatus /\ KindsDistinct)
        /\ Is2xx(out.net.status) => ~out.result.isError

(* C3, amended: the same for non-2xx responses; a 2xx response never      *)
(* produces one of the four HTTP error kinds: memuFetch returns the       *)
(* parsed body when the body is JSON, and fails with the parse error of   *)
(* res.json() when it is not.                                             *)

C3_StatusDecidesError ==
    GotResponse =>
        /\ ~Is2xx(out.net.status) => (ErrorOfStatus /\ KindsDistinct)
        /\ Is2xx(out.net.status) =>
              IF "json" \in DOMAIN out.net.text
              THEN ~out.result.isError
              ELSE out.result = toolError(JsonSyntaxError)

C3_Witness ==
    /\ GotResponse
    /\ out.net.status = 429
    /\ out.result = toolError(RateLimitError)

----------------------------------------------------------------------------
(* C4: an invocation puts at most one request on the wire over its whole  *)
(* life: once its request is settled, by a 2xx response, a non-2xx        *)
(* response or a failure of the request, it ends without another one.     *)

C4_AtMostOneRequest ==
    /\ \A inv \in InFlight : Len(inv.requests) = 1
    /\ SomeEnded => /\ Len(out.requests) <= 1
                    /\ out.settled => Len(out.requests) = 1

C4_Witness ==
    /\ GotResponse
    /\ ~Is2xx(out.net.status)
    /\ out.result.isError
    /\ Len(out.requests) = 1

----------------------------------------------------------------------------
(* C5, as stated: every request of every tool carries user_id, the        *)
(* configured MEMU_USER_ID, and agent_id, the fixed "claude-code".        *)

CarriesUserId(req) ==
    /\ "user_id" \in DOMAIN BodyOf(req)
    /\ BodyOf(req).user_id = env.MEMU_USER_ID

CarriesFixedAgentId(req) ==
    /\ "agent_id" \in DOMAIN BodyOf(req)
    /\ BodyOf(req).agent_id = "claude-code"

CarriesBoth(tool, args, req) == CarriesUserId(req) /\ CarriesFixedAgentId(req)

C5_Original == RequestHolds(CarriesBoth)

(* C5, amended: every request of memu_memorize, memu_retrieve and         *)
(* memu_categories carries user_id, the configured MEMU_USER_ID, and      *)
(* agent_id "claude-code"; a request of memu_delete carries user_id, and  *)
(* agent_id only when the caller passes a non-empty one, with the         *)
(* caller's value; a request of memu_memorize_status is a GET without a   *)
(* body and carries neither.                                              *)

CarriesPerTool(tool, args, req) ==
    /\ tool \in {"memu_memorize", "memu_retrieve", "memu_categories"}
          => CarriesBoth(tool, args, req)
    /\ tool = "memu_delete"
          => /\ CarriesUserId(req)
             /\ "agent_id" \in DOMAIN BodyOf(req)
                   <=> args.agent_id \notin {Undefined, ""}
             /\ "agent_id" \in DOMAIN BodyOf(req)
                   => BodyOf(req).agent_id = args.agent_id
    /\ tool = "memu_memorize_status"
          => /\ req.method = "GET"
             /\ "body" \notin DOMAIN req

C5_RequestIdentifiers == RequestHolds(CarriesPerTool)

C5_Witness ==
    \E a, b \in InFlight :
        /\ a.tool = "memu_retrieve"
        /\ b.tool = "memu_memorize_status"

----------------------------------------------------------------------------
(* C6: the body of a memu_delete request has exactly the field user_id    *)
(* when agent_id is omitted, and exactly user_id and agent_id, with the   *)
(* caller's value, when the caller sets agent_id to any string.           *)

DeleteBodyAsDocumented(tool, args, req) ==
    tool = "memu_delete" =>
        IF args.agent_id = Undefined
        THEN DOMAIN BodyOf(req) = {"user_id"}
        ELSE /\ DOMAIN BodyOf(req) = {"user_id", "agent_id"}
             /\ BodyOf(req).agent_id = args.agent_id

C6_DeleteBody == RequestHolds(DeleteBodyAsDocumented)

----------------------------------------------------------------------------
(* C7: the text of memu_retrieve shows its sections in the order          *)
(* rewritten query, categories, items, resources, each exactly when its   *)
(* part of the response is non-empty; a response with none of the four    *)
(* yields exactly the fixed fallback text.                                *)

Retrieved ==
    /\ GotResponse
    /\ out.tool = "memu_retrieve"
    /\ Is2xx(out.net.status)
    /\ "json" \in DOMAIN out.net.text

RetrievedBody == out.net.text.json
RetrievedText == out.result.content[1].text

NonEmptyStr(obj, k) == k \in DOMAIN obj /\ obj[k] # ""
NonEmptyList(obj, k) == k \in DOMAIN obj /\ obj[k] # <<>>

NoHits ==
    /\ ~NonEmptyList(RetrievedBody, "categories")
    /\ ~NonEmptyList(RetrievedBody, "items")
    /\ ~NonEmptyList(RetrievedBody, "resources")

\* the section a line of the text belongs to: 1 rewritten query,
\* 2 categories, 3 items, 4 resources
SectionOf(line) ==
    CASE line[1] = "> Rewritten query: " -> 1
      [] line[1] = "\n## Memory items" -> 3
      [] line[1] = "- " -> 3
      [] line[1] = "\n## Resources" -> 4
      [] line[1] = "- [" -> 4
      [] OTHER -> 2

Shows(text, k) == \E n \in 1..Len(text) : SectionOf(text[n]) = k

C7_RetrieveSectionOrder ==
    Retrieved =>
        LET text == RetrievedText
            body == RetrievedBody
        IN  IF ~NonEmptyStr(body, "rewritten_query") /\ NoHits
            THEN text = << <<"No related memories were found.">> >>
            ELSE /\ \A m, n \in 1..Len(text) :
                        m < n => SectionOf(text[m]) <= SectionOf(text[n])
                 /\ Shows(text, 1) <=> NonEmptyStr(body, "rewritten_query")
                 /\ Shows(text, 2) <=> NonEmptyList(body, "categories")
                 /\ Shows(text, 3) <=> NonEmptyList(body, "items")
                 /\ Shows(text, 4) <=> NonEmptyList(body, "resources")

C7_Witness ==
    /\ Retrieved
    /\ NonEmptyStr(RetrievedBody, "rewritten_query")
    /\ NonEmptyList(RetrievedBody, "categories")
    /\ NonEmptyList(RetrievedBody, "items")
    /\ NonEmptyList(RetrievedBody, "resources")
    /\ ~out.result.isError

----------------------------------------------------------------------------
(* C8, as stated: when the response has no categories, no items and no    *)
(* resources, memu_retrieve returns the fixed "nothing found" text,       *)
(* whether or not the response carries a rewritten query.                 *)

C8_Original ==
    (Retrieved /\ NoHits) =>
        RetrievedText = << <<"No related memories were found.">> >>

(* C8, amended: when the response has no categories, no items and no      *)
(* resources, memu_retrieve returns the fixed "nothing found" text if the *)
(* response carries no rewritten query (or an empty one); if it carries   *)
(* one, the text is the rewritten-query line alone.                       *)

C8_NothingFound ==
    (Retrieved /\ NoHits) =>
        IF NonEmptyStr(RetrievedBody, "rewritten_query")
        THEN RetrievedText =
                << <<"> Rewritten query: ", RetrievedBody.rewritten_query>> >>
        ELSE RetrievedText = << <<"No related memories were found.">> >>

C8_Witness ==
    /\ Retrieved
    /\ NoHits
    /\ NonEmptyStr(RetrievedBody, "rewritten_query")
    /\ Len(RetrievedText) = 1

----------------------------------------------------------------------------
(* C9: an error raised while one invocation is handled (schema rejection, *)
(* or any error of memuFetch) stays in that invocation: it comes back as  *)
(* the failed result of that invocation, the process keeps running, and   *)
(* the invocations in flight beside it are left as they were; an          *)
(* invocation fails exactly when its own arguments or its own response    *)
(* give a cause, whatever happened to the others.                         *)

\* the causes of failure an invocation has in itself
OwnFailure ==
    \/ ~schemaOk(out.tool, out.args)
    \/ ConfigMissing
    \/ /\ out.settled
       /\ \/ out.net.rejected
          \/ ~Is2xx(out.net.status)
          \/ "json" \notin DOMAIN out.net.text

ErrorsAreLocal ==
    /\ (SomeEnded \/ ~NoneInFlight)
          => (proc = "running" /\ exitCode = -1)
    /\ SomeEnded => (out.result.isError <=> OwnFailure)

\* a step starts or ends at most one invocation and leaves the others in
\* flight as they were
OthersUntouched ==
    \/ /\ inflight \sqsubseteq inflight'
       /\ BagCardinality(inflight') <= BagCardinality(inflight) + 1
    \/ /\ inflight' \sqsubseteq inflight
       /\ BagCardinality(inflight') = BagCardinality(inflight) - 1

C9_ErrorsConfined == []ErrorsAreLocal /\ [][OthersUntouched]_vars

C9_Witness ==
    /\ GotResponse
    /\ out.result.isError
    /\ proc = "running"
    /\ ~NoneInFlight

----------------------------------------------------------------------------
(* C10, as stated: a configuration error, raised when a tool is invoked   *)
(* with MEMU_API_KEY or MEMU_USER_ID missing, is fatal to the process: it *)
(* is not the failed result of the invocation, the process terminates     *)
(* with a non-zero status.                                                *)

ConfigErrorRaised == SomeEnded /\ out.entered /\ ConfigMissing

C10_Original ==
    ConfigErrorRaised =>
        /\ proc = "exited"
        /\ exitCode # 0
        /\ out.result \notin ConfigFailures

(* C10, amended: a configuration error is not fatal to the process: it is *)
(* the failed result of the invocation that raised it and the process     *)
(* keeps running; only a transport-startup error terminates the process,  *)
(* with status 1 and before any invocation is handled.                    *)

C10_ConfigErrorNotFatal ==
    /\ ConfigErrorRaised =>
          /\ out.result \in ConfigFailures
          /\ proc = "running"
          /\ exitCode = -1
    /\ proc = "exited" =>
          /\ exitCode = 1
          /\ ~SomeEnded
          /\ NoneInFlight

C10_Witness ==
    /\ ConfigErrorRaised
    /\ out.tool = "memu_memorize"
    /\ out.result = toolError(UserIdMissing)
    /\ proc = "running"

====
